---- MODULE Spec2Model ----
(***************************************************************************)
(* Client-side interaction state machine of the ECE 350 RAG assistant.     *)
(*                                                                         *)
(* Conversation Session: the useChat hook (hooks/useChat) together with    *)
(* the process-wide APIClient singleton (lib/api) whose single             *)
(* abortController slot is the cancellation token of the query request.    *)
(*                                                                         *)
(* Every entry point of the hook is one action.  sendMessage is an async   *)
(* function: everything up to its first await (the guard, the optimistic   *)
(* append, apiClient.query up to the fetch call) runs synchronously and is *)
(* the action sendMessage(q); the code after the await (try / catch /      *)
(* finally) is the action resume(r, o), which runs when the promise of     *)
(* request r settles.  Promise reactions are microtasks: the reaction of   *)
(* an aborted fetch runs once the calling code has returned, so entry      *)
(* points called in sequence by the same caller precede it, whereas a      *)
(* network outcome is a later task and finds no aborted request pending.   *)
(*                                                                         *)
(* Selection Coordinator: the useSourceSelection hook; its delayed clear    *)
(* (setTimeout in closePdf) is the action timeout.  Panel Orchestrator:    *)
(* the Home page, whose handlers call the two hooks and own the source     *)
(* panel's state.  A handler of Home is enabled when the control it is     *)
(* bound to is rendered.                                                   *)
(*                                                                         *)
(* Text is a sequence of tokens; a question is a sequence of characters.   *)
(* An optional value (string | null, field?) is a sequence of length 0     *)
(* (absent) or 1.  Message ids and timestamps (generateId, new Date())     *)
(* decide nothing in the hook and are left out of the message record.      *)
(***************************************************************************)
EXTENDS Integers, Sequences, FiniteSets, TLC

\* Bounds of the model: the number of query requests issued in a run, and
\* the number of delayed clears that can be pending at once.
MaxRequests == 3

MaxTimers == 3

\* The longest evidence list handed to the source panel for deduplication.
MaxSources == 3

\* The questions handed to sendMessage: empty, whitespace only, plain, and
\* padded with whitespace.
Questions == {<<>>, <<" ", " ">>, <<"a">>, <<" ", "b", " ">>}

NULL == <<>>

Some(x) == <<x>>

TEST_MODE == FALSE

\* useState(1.2): the scale of the document viewer, in hundredths.
DefaultScale == 120

\* The query endpoint before its first request.
ModalDefaultScale == 100

\* PDFViewerModal as it is mounted: no page count, page 1, loading.
Unopened ==
  [numPages |-> <<>>, currentPage |-> 1, scale |-> ModalDefaultScale, isLoading |-> TRUE,
   error |-> <<>>, status |-> "none"]

\* No scroll event yet: no rectangles.
NoLayout == [container |-> [top |-> 0, height |-> 0], blocks |-> <<>>]

Idle == [body |-> NULL, forwarded |-> <<>>, response |-> NULL, raised |-> NULL]

----------------------------------------------------------------------------
\* String.prototype.trim

RECURSIVE TrimStart(_)
TrimStart(s) ==
  IF Len(s) > 0 /\ s[1] = " " THEN TrimStart(SubSeq(s, 2, Len(s))) ELSE s

RECURSIVE TrimEnd(_)
TrimEnd(s) ==
  IF Len(s) > 0 /\ s[Len(s)] = " " THEN TrimEnd(SubSeq(s, 1, Len(s) - 1)) ELSE s

trim(s) == TrimEnd(TrimStart(s))

----------------------------------------------------------------------------
\* Evidence and the outcomes of the query request.

Source1 ==
  [chunk_id |-> "c1", relevance_score |-> 80, breadcrumb |-> "A",
   pdf_file |-> Some("L01.pdf"), pdf_pages |-> Some(<<2, 3>>)]

Source2 ==
  [chunk_id |-> "c2", relevance_score |-> 95, breadcrumb |-> "A",
   pdf_file |-> NULL, pdf_pages |-> NULL]

Response1 ==
  [answer |-> <<"Thrashing is excessive paging.">>,
   confidence |-> "high",
   sources |-> <<Source1, Source2>>,
   retrieval_stats |-> [retrieval_time_ms |-> 12, avg_score |-> 87],
   metadata |-> [generation_time_ms |-> 340, model_used |-> "gpt-4o-mini"]]

Response2 ==
  [answer |-> <<"I don't have enough context.">>,
   confidence |-> "no_context",
   sources |-> <<>>,
   retrieval_stats |-> [retrieval_time_ms |-> 9, avg_score |-> 0],
   metadata |-> [generation_time_ms |-> 120, model_used |-> "gpt-4o-mini"]]

Responses == {Response1, Response2}

Source3 ==
  [chunk_id |-> "c3", relevance_score |-> 70, breadcrumb |-> "B",
   pdf_file |-> Some("L02.pdf"), pdf_pages |-> Some(<<5, 6>>)]

Source4 ==
  [chunk_id |-> "c4", relevance_score |-> 60, breadcrumb |-> "C",
   pdf_file |-> NULL, pdf_pages |-> NULL]

\* A second item of lecture 1, under the breadcrumb and with the score of
\* Source1.
Source5 ==
  [chunk_id |-> "c5", relevance_score |-> 80, breadcrumb |-> "A",
   pdf_file |-> Some("L01.pdf"), pdf_pages |-> Some(<<7, 8>>)]

Response3 ==
  [answer |-> <<"A semaphore is a counter.">>,
   confidence |-> "low",
   sources |-> <<Source3, Source4>>,
   retrieval_stats |-> [retrieval_time_ms |-> 15, avg_score |-> 65],
   metadata |-> [generation_time_ms |-> 210, model_used |-> "gpt-4o-mini"]]

\* What fetch() and the body of its response can be for a request whose
\* signal is not aborted: a 2xx response, a non-2xx response whose JSON body
\* carries the fields it carries (an absent field is NULL; a body that does
\* not parse has parsed = FALSE), or a rejection of fetch itself.
HttpOk(resp) == [type |-> "response", ok |-> TRUE, status |-> 200, body |-> resp]

HttpError(st, parsed, msg, err, lim, stText) ==
  [type |-> "response", ok |-> FALSE, status |-> st,
   body |-> [parsed |-> parsed, message |-> msg, error |-> err, limit |-> lim],
   statusText |-> stText]

NetworkFailure == [type |-> "rejected", message |-> <<"Failed to fetch">>]

Aborted == [type |-> "rejected", message |-> <<"signal is aborted without reason">>]

Outcomes ==
  {HttpOk(r) : r \in Responses} \cup
  {HttpError(429, TRUE, <<"Too many requests">>, <<"Rate limited">>, Some(5), <<"Too Many Requests">>),
   HttpError(502, FALSE, NULL, NULL, NULL, <<"Bad Gateway">>),
   NetworkFailure}

----------------------------------------------------------------------------
\* State.

VARIABLES
  messages,        \* useChat: useState<ChatMessage[]>
  isLoading,       \* useChat: useState(false), the exposed in-flight flag
  error,           \* useChat: useState<string | null>
  loadingRef,      \* useChat: useRef(false), the guard sendMessage reads
  abortController, \* APIClient.abortController: 0 is null, r the controller of request r
  requests,        \* the fetch calls issued so far, in order
  lastCall,        \* history: the step taken last, with its arguments
  selectedSource,  \* useSourceSelection: useState<Source | null>
  isPdfOpen,       \* useSourceSelection: useState(false)
  pdfOrigin,       \* useSourceSelection: useState<PdfOrigin>("chat")
  timers,          \* the setTimeout callbacks of closePdf that have not run
  isSourcePanelOpen, \* Home: useState(false)
  panelSources,    \* Home: useState<Source[]>([])
  panelAvgScore,   \* Home: useState<number | undefined>()
  numPages,        \* document viewer: useState<number | null>(null)
  currentPage,     \* document viewer: useState(1)
  scale,           \* PDFViewerPanel: useState(1.2), in hundredths
  viewerIsLoading, \* PDFViewerPanel: isLoading, useState(true)
  viewerError,     \* PDFViewerPanel: error, useState<string | null>(null)
  pdfComponents,   \* PDFViewerPanel: react-pdf is absent, being imported, or loaded
  document,        \* the mounted react-pdf Document: its file and load state
  scrollTimers,    \* the setTimeout callbacks of the initial-scroll effect, by target page
  scrollsDone,     \* history: the pages scrolled into view since the source prop last changed
  wheelListener,   \* the wheel listener is attached to the container rendered now
  scrollListener,  \* the scroll listener is attached to the container rendered now
  layout,          \* the rectangles of the container and the page blocks at the last scroll event
  uniqueSources,   \* SourcePanel: const uniqueSources, as of the last render
  route,           \* the query endpoint: the request body, what was forwarded, the answer
  modal            \* PDFViewerModal: its state and the load of its Document

session == <<messages, isLoading, error, loadingRef, abortController, requests>>

selection == <<selectedSource, isPdfOpen, pdfOrigin, timers>>

panel == <<isSourcePanelOpen, panelSources, panelAvgScore>>

viewer == <<numPages, currentPage, scale, viewerIsLoading, viewerError, pdfComponents,
            document, scrollTimers, scrollsDone, wheelListener, scrollListener, layout>>

\* The state of the components a specification of the session, the
\* selection hook or the page's handlers leaves alone.
elsewhere == <<viewer, uniqueSources, route, modal>>

vars == <<messages, isLoading, error, loadingRef, abortController, requests, lastCall,
          selectedSource, isPdfOpen, pdfOrigin, timers,
          isSourcePanelOpen, panelSources, panelAvgScore,
          numPages, currentPage, scale, viewerIsLoading, viewerError, pdfComponents,
          document, scrollTimers, scrollsDone, wheelListener, scrollListener, layout,
          uniqueSources, route, modal>>

\* One fetch call: the question of its body, the state of the signal it was
\* given, the state of the promise sendMessage awaits, and (history) the
\* caller whose abort() reached it while it was pending.
NewRequest(q) ==
  [question |-> q, signal |-> "active", promise |-> "pending", abortedBy |-> "none"]

Pending(r) == r \in 1..Len(requests) /\ requests[r].promise = "pending"

\* Requests whose rejection by abort() has not been delivered to sendMessage.
AbortedPending == {r \in 1..Len(requests) : Pending(r) /\ requests[r].signal = "aborted"}

\* Requests issued, not resolved and not cancelled.
Outstanding == {r \in 1..Len(requests) : Pending(r) /\ requests[r].signal = "active"}

----------------------------------------------------------------------------
\* APIClient (lib/api).

\* cancelPendingRequest(): abort the controller in the slot and empty the slot.
cancelPendingRequest(reqs, ac, caller) ==
  IF ac # 0
    THEN [requests |->
            [reqs EXCEPT ![ac] =
               [@ EXCEPT !.signal = "aborted",
                         !.abortedBy = IF @ = "none" /\ reqs[ac].promise = "pending"
                                         THEN caller ELSE @]],
          abortController |-> 0]
    ELSE [requests |-> reqs, abortController |-> ac]

\* Mutant: the new controller is installed without aborting the one in the slot.
query_NoInvalidate(reqs, ac, request) ==
  [requests |-> Append(reqs, NewRequest(request.question)),
   abortController |-> Len(reqs) + 1]

\* query(request), up to the fetch call: invalidate, then install a new controller.
query(reqs, ac, request) ==
  LET c == cancelPendingRequest(reqs, ac, "query")
  IN  [requests |-> Append(c.requests, NewRequest(request.question)),
       abortController |-> Len(c.requests) + 1]

\* a || b on text: the empty and the absent string are falsy.
Or(a, b) == IF a = NULL THEN b ELSE a

Return(v) == [threw |-> FALSE, value |-> Some(v), isError |-> FALSE,
              message |-> NULL, isRateLimit |-> FALSE, limit |-> NULL]

\* Everything query throws is an Error: the ones it builds, and the TypeError
\* or the AbortError DOMException fetch rejects with.
Throw(msg, rl, lim) == [threw |-> TRUE, value |-> NULL, isError |-> TRUE,
                        message |-> msg, isRateLimit |-> rl, limit |-> lim]

\* query(request), from the settled fetch on: the value returned or the Error thrown.
queryResult(o) ==
  IF o.type = "rejected" THEN Throw(o.message, FALSE, NULL)
  ELSE IF ~o.ok THEN
    LET err == IF o.body.parsed
                 THEN o.body
                 ELSE [parsed |-> FALSE, error |-> <<"Unknown error">>,
                       message |-> o.statusText, limit |-> NULL]
    IN  IF o.status = 429
          THEN Throw(Or(err.message, <<"Rate limit exceeded">>), TRUE, err.limit)
          ELSE Throw(Or(Or(err.message, err.error), <<"Query failed">>), FALSE, NULL)
  ELSE Return(o.body)

----------------------------------------------------------------------------
\* useChat (hooks/useChat).

\* Mutant: the question is stored as typed.
userMessage_Untrimmed(question) ==
  [role |-> "user", content |-> question,
   sources |-> NULL, confidence |-> NULL, stats |-> NULL]

userMessage(question) ==
  [role |-> "user", content |-> trim(question),
   sources |-> NULL, confidence |-> NULL, stats |-> NULL]

\* Mutant: both timing fields are read from the retrieval statistics.
assistantMessage_SwappedTimes(response) ==
  [role |-> "assistant", content |-> response.answer,
   sources |-> Some(response.sources),
   confidence |-> Some(response.confidence),
   stats |-> Some([retrieval_time_ms |-> response.retrieval_stats.retrieval_time_ms,
                   generation_time_ms |-> response.retrieval_stats.retrieval_time_ms,
                   avg_score |-> response.retrieval_stats.avg_score])]

assistantMessage(response) ==
  [role |-> "assistant", content |-> response.answer,
   sources |-> Some(response.sources),
   confidence |-> Some(response.confidence),
   stats |-> Some([retrieval_time_ms |-> response.retrieval_stats.retrieval_time_ms,
                   generation_time_ms |-> response.metadata.generation_time_ms,
                   avg_score |-> response.retrieval_stats.avg_score])]

ErrorPrefix == <<"Sorry, I encountered an error: ">>

\* Mutant: the message shown does not carry the error text.
errorChatMessage_Generic(errorMessage) ==
  [role |-> "assistant", content |-> <<"Sorry, something went wrong.">>,
   sources |-> NULL, confidence |-> NULL, stats |-> NULL]

errorChatMessage(errorMessage) ==
  [role |-> "assistant", content |-> ErrorPrefix \o errorMessage,
   sources |-> NULL, confidence |-> NULL, stats |-> NULL]

\* History: the step taken last, with the question of a sendMessage call, or
\* the request and the fetch outcome a resumption of sendMessage ran on.
Call(op, question, r, o) ==
  [op |-> op, question |-> question, request |-> r, outcome |-> o,
   hook |-> "none", source |-> NULL, arg |-> 0, prevented |-> FALSE]

\* History of a step of the selection hook or of a handler of Home: the
\* handler, the operation of useSourceSelection it called ("none" if it
\* called none) and the evidence item it was called with.
UiCall(op, hook, source) ==
  [Call(op, NULL, 0, NULL) EXCEPT !.hook = hook, !.source = source]

\* Mutant: the new message is put in front.
appendMessage_Prepend(prev, message) == <<message>> \o prev

\* [...prev, message]
appendMessage(prev, message) == Append(prev, message)

Init ==
  /\ messages = <<>>
  /\ isLoading = FALSE
  /\ error = NULL
  /\ loadingRef = FALSE
  /\ abortController = 0
  /\ requests = <<>>
  /\ lastCall = Call("mount", NULL, 0, NULL)
  /\ selectedSource = NULL
  /\ isPdfOpen = FALSE
  /\ pdfOrigin = "chat"
  /\ timers = 0
  /\ isSourcePanelOpen = FALSE
  /\ panelSources = <<>>
  /\ panelAvgScore = NULL
  /\ numPages = NULL
  /\ currentPage = 1
  /\ scale = DefaultScale
  /\ viewerIsLoading = TRUE
  /\ viewerError = NULL
  /\ pdfComponents = "absent"
  /\ document = NULL
  /\ scrollTimers = <<>>
  /\ scrollsDone = <<>>
  /\ wheelListener = FALSE
  /\ scrollListener = FALSE
  /\ layout = NoLayout
  /\ uniqueSources = <<>>
  /\ route = Idle
  /\ modal = Unopened

\* Mutant: the guard tests the question as typed.
sendRejected_NoTrim(question) == loadingRef \/ question = <<>>

\* The guard of sendMessage: the call returns at once.
sendRejected(question) == loadingRef \/ trim(question) = <<>>

\* sendMessage(question), up to the await of apiClient.query.
sendMessage(question) ==
  /\ lastCall' = Call("sendMessage", Some(question), 0, NULL)
  /\ IF sendRejected(question)
       THEN UNCHANGED session
       ELSE /\ Len(requests) < MaxRequests
            /\ loadingRef' = TRUE
            /\ isLoading' = TRUE
            /\ error' = NULL
            /\ messages' = appendMessage(messages, userMessage(question))
            /\ IF TEST_MODE
                 THEN UNCHANGED <<abortController, requests>>
                 ELSE LET c == query(requests, abortController,
                                     [question |-> trim(question)])
                      IN  /\ requests' = c.requests
                          /\ abortController' = c.abortController
  /\ UNCHANGED <<selection, panel, elsewhere>>

\* Mutant: isLoading and loadingRef are reset after the try block only, so
\* a thrown error skips the reset.
resume_NoFinally(r, o) ==
  /\ Pending(r)
  /\ IF requests[r].signal = "aborted"
       THEN o = Aborted
       ELSE o # Aborted /\ AbortedPending = {}
  /\ lastCall' = Call("resume", NULL, r, Some(o))
  /\ requests' = [requests EXCEPT ![r].promise = "settled"]
  /\ LET res == queryResult(o)
     IN  IF ~res.threw
           THEN /\ messages' = appendMessage(messages, assistantMessage(res.value[1]))
                /\ isLoading' = FALSE
                /\ loadingRef' = FALSE
                /\ UNCHANGED error
           ELSE /\ error' = Some(res.message)
                /\ messages' = appendMessage(messages, errorChatMessage(res.message))
                /\ UNCHANGED <<isLoading, loadingRef>>
  /\ UNCHANGED <<abortController, selection, panel, elsewhere>>

\* sendMessage, from the await on: try / catch / finally for request r,
\* whose fetch settled with outcome o.
resume(r, o) ==
  /\ Pending(r)
  /\ IF requests[r].signal = "aborted"
       THEN o = Aborted
       ELSE o # Aborted /\ AbortedPending = {}
  /\ lastCall' = Call("resume", NULL, r, Some(o))
  /\ requests' = [requests EXCEPT ![r].promise = "settled"]
  /\ LET res == queryResult(o)
     IN  IF ~res.threw
           THEN /\ messages' = appendMessage(messages, assistantMessage(res.value[1]))
                /\ UNCHANGED error
           ELSE LET errorMessage == IF res.isError
                                      THEN res.message
                                      ELSE <<"An unexpected error occurred">>
                IN  /\ error' = Some(errorMessage)
                    /\ messages' = appendMessage(messages, errorChatMessage(errorMessage))
  /\ isLoading' = FALSE
  /\ loadingRef' = FALSE
  /\ UNCHANGED <<abortController, selection, panel, elsewhere>>

clearChat ==
  /\ lastCall' = Call("clearChat", NULL, 0, NULL)
  /\ messages' = <<>>
  /\ error' = NULL
  /\ LET c == cancelPendingRequest(requests, abortController, "clearChat")
     IN  /\ requests' = c.requests
         /\ abortController' = c.abortController
  /\ UNCHANGED <<isLoading, loadingRef, selection, panel, elsewhere>>

cancelRequest ==
  /\ lastCall' = Call("cancelRequest", NULL, 0, NULL)
  /\ LET c == cancelPendingRequest(requests, abortController, "cancelRequest")
     IN  /\ requests' = c.requests
         /\ abortController' = c.abortController
  /\ isLoading' = FALSE
  /\ loadingRef' = FALSE
  /\ UNCHANGED <<messages, error, selection, panel, elsewhere>>

Next ==
  \/ \E q \in Questions : sendMessage(q)
  \/ \E r \in 1..Len(requests) : \E o \in Outcomes \cup {Aborted} : resume(r, o)
  \/ clearChat
  \/ cancelRequest

Spec == Init /\ [][Next]_vars

\* The session with one question text and one outcome of each kind, under
\* the assumption that every pending request's promise settles: the
\* transport answers, fails or delivers the abort.
FairOutcomes == {HttpOk(Response1), NetworkFailure, Aborted}

settle == \E r \in 1..Len(requests) : \E o \in FairOutcomes : resume(r, o)

FairNext ==
  \/ sendMessage(<<"a">>)
  \/ settle
  \/ clearChat
  \/ cancelRequest

FairSpec == Init /\ [][FairNext]_vars /\ WF_vars(settle)

----------------------------------------------------------------------------
\* Selection Coordinator: useSourceSelection.

\* The evidence items the hook is called with.
Sources == {Source1, Source2, Source3, Source4}

PdfOrigins == {"chat", "sources-panel"}

\* openPdf(source, origin = "chat")
openPdf(source, origin) ==
  /\ selectedSource' = Some(source)
  /\ pdfOrigin' = origin
  /\ isPdfOpen' = TRUE
  /\ UNCHANGED timers

\* Mutant: the evidence and the origin are cleared at once, no timer is set.
closePdf_ClearNow ==
  /\ isPdfOpen' = FALSE
  /\ timers < MaxTimers
  /\ selectedSource' = NULL
  /\ pdfOrigin' = "chat"
  /\ UNCHANGED timers

\* closePdf(): the viewer closes now and a timer is set; nothing ever
\* cancels the timer.
closePdf ==
  /\ isPdfOpen' = FALSE
  /\ timers < MaxTimers
  /\ timers' = timers + 1
  /\ UNCHANGED <<selectedSource, pdfOrigin>>

\* Mutant: the swap goes through openPdf's default origin.
swapPdf_ResetOrigin(source) ==
  /\ selectedSource' = Some(source)
  /\ pdfOrigin' = "chat"
  /\ UNCHANGED <<isPdfOpen, timers>>

\* swapPdf(source)
swapPdf(source) ==
  /\ selectedSource' = Some(source)
  /\ UNCHANGED <<isPdfOpen, pdfOrigin, timers>>

\* The callback closePdf handed to setTimeout: setSelectedSource(null),
\* setPdfOrigin("chat").
delayedClear ==
  /\ timers > 0
  /\ timers' = timers - 1
  /\ selectedSource' = NULL
  /\ pdfOrigin' = "chat"
  /\ UNCHANGED isPdfOpen

\* The callback runs, 300 ms after the call of closePdf.
timeout ==
  /\ delayedClear
  /\ lastCall' = UiCall("timeout", "none", NULL)
  /\ UNCHANGED <<session, panel, elsewhere>>

\* The hook on its own: its three operations called in any order with any
\* arguments, and the timers running out.
callOpenPdf(source, origin) ==
  /\ openPdf(source, origin)
  /\ lastCall' = UiCall("openPdf", "openPdf", Some(source))
  /\ UNCHANGED <<session, panel, elsewhere>>

callSwapPdf(source) ==
  /\ swapPdf(source)
  /\ lastCall' = UiCall("swapPdf", "swapPdf", Some(source))
  /\ UNCHANGED <<session, panel, elsewhere>>

callClosePdf ==
  /\ closePdf
  /\ lastCall' = UiCall("closePdf", "closePdf", NULL)
  /\ UNCHANGED <<session, panel, elsewhere>>

SelectionNext ==
  \/ \E s \in Sources : \E o \in PdfOrigins : callOpenPdf(s, o)
  \/ \E s \in Sources : callSwapPdf(s)
  \/ callClosePdf
  \/ timeout

\* A timer that was set runs out.
SelectionSpec == Init /\ [][SelectionNext]_vars /\ WF_vars(timeout)

----------------------------------------------------------------------------
\* Panel Orchestrator: the Home page.

\* Mutant: an item replaces the one kept when its score is at least as high.
deduplicateSources_KeepLast(sources) ==
  LET RECURSIVE Scan(_, _)
      Scan(seen, i) ==
        IF i > Len(sources) THEN seen
        ELSE LET source == sources[i]
                 at == {k \in 1..Len(seen) : seen[k].breadcrumb = source.breadcrumb}
             IN  IF at = {}
                   THEN Scan(Append(seen, source), i + 1)
                   ELSE LET k == CHOOSE k \in at : TRUE
                        IN  IF source.relevance_score >= seen[k].relevance_score
                              THEN Scan([seen EXCEPT ![k] = source], i + 1)
                              ELSE Scan(seen, i + 1)
  IN  Scan(<<>>, 1)

\* Mutant: the first item of a breadcrumb is kept whatever its score.
deduplicateSources_KeepFirst(sources) ==
  LET RECURSIVE Scan(_, _)
      Scan(seen, i) ==
        IF i > Len(sources) THEN seen
        ELSE LET source == sources[i]
                 at == {k \in 1..Len(seen) : seen[k].breadcrumb = source.breadcrumb}
             IN  IF at = {}
                   THEN Scan(Append(seen, source), i + 1)
                   ELSE Scan(seen, i + 1)
  IN  Scan(<<>>, 1)

\* deduplicateSources: one item per breadcrumb, in the order the
\* breadcrumbs first occur (Map insertion order); a later item replaces the
\* one kept for its breadcrumb when its score is strictly higher.
deduplicateSources(sources) ==
  LET RECURSIVE Scan(_, _)
      Scan(seen, i) ==
        IF i > Len(sources) THEN seen
        ELSE LET source == sources[i]
                 at == {k \in 1..Len(seen) : seen[k].breadcrumb = source.breadcrumb}
             IN  IF at = {}
                   THEN Scan(Append(seen, source), i + 1)
                   ELSE LET k == CHOOSE k \in at : TRUE
                        IN  IF source.relevance_score > seen[k].relevance_score
                              THEN Scan([seen EXCEPT ![k] = source], i + 1)
                              ELSE Scan(seen, i + 1)
  IN  Scan(<<>>, 1)

\* Mutant: the scan runs oldest to newest, the first match wins.
latestAssistantMessage_Oldest ==
  LET found == {i \in 1..Len(messages) :
                  messages[i].role = "assistant" /\ messages[i].sources # NULL}
  IN  IF found = {} THEN NULL
      ELSE Some(messages[CHOOSE i \in found : \A j \in found : i <= j])

\* [...messages].reverse().find((m) => m.role === "assistant" && m.sources):
\* the newest assistant message whose sources field is set.  An array is
\* truthy whatever its length, so an answer with an empty sources list is
\* found; an error reply has no sources field and is skipped.
latestAssistantMessage ==
  LET found == {i \in 1..Len(messages) :
                  messages[i].role = "assistant" /\ messages[i].sources # NULL}
  IN  IF found = {} THEN NULL
      ELSE Some(messages[CHOOSE i \in found : \A j \in found : i >= j])

\* latestAssistantMessage?.stats?.avg_score
latestAvgScore ==
  IF latestAssistantMessage = NULL \/ latestAssistantMessage[1].stats = NULL
    THEN NULL
    ELSE Some(latestAssistantMessage[1].stats[1].avg_score)

\* Mutant: the main content is pushed aside whenever the viewer is open.
mainContentClasses_NoOriginTest ==
  (IF isPdfOpen THEN {"pdf-open"} ELSE {})
    \cup (IF isPdfOpen /\ pdfOrigin = "sources-panel" THEN {"hidden"} ELSE {})

\* The conditional classes of the main-content container.
mainContentClasses ==
  (IF isPdfOpen /\ pdfOrigin = "chat" THEN {"pdf-open"} ELSE {})
    \cup (IF isPdfOpen /\ pdfOrigin = "sources-panel" THEN {"hidden"} ELSE {})

\* PDFViewerPanel's flexibleWidth prop.
flexibleWidth == pdfOrigin = "sources-panel"

\* The width style of the viewer panel; the panel renders nothing without
\* a source.
pdfPanelWidth ==
  IF selectedSource = NULL THEN "not rendered"
  ELSE IF flexibleWidth THEN "calc(100vw - 28rem)" ELSE "min(55vw, 800px)"

\* The main content (header, transcript, input) is rendered unless the
\* viewer is open with origin sources-panel.
ChatVisible == ~(isPdfOpen /\ pdfOrigin = "sources-panel")

\* The evidence badges of the transcript: ChatMessage renders one badge for
\* each item of a message whose sources list is set and not empty.
BadgeSources ==
  {messages[i].sources[1][k] :
     <<i, k>> \in {ik \in (1..Len(messages)) \X (1..2) :
                     /\ messages[ik[1]].role # "user"
                     /\ messages[ik[1]].sources # NULL
                     /\ ik[2] <= Len(messages[ik[1]].sources[1])}}

\* The cards of the source panel that carry a "View PDF" button: the
\* deduplicated panel sources that have a pdf_file.
PanelCards ==
  LET unique == deduplicateSources(panelSources)
  IN  {unique[k] : k \in {j \in 1..Len(unique) : unique[j].pdf_file # NULL}}

\* The "Sources (n)" button of the header is rendered.
SourcesButtonShown ==
  /\ latestAssistantMessage # NULL
  /\ Len(latestAssistantMessage[1].sources[1]) > 0

\* Mutant: a chat click that opens the viewer closes the source panel too.
handleSourceClick_ClosesPanel(source) ==
  /\ ChatVisible
  /\ source \in BadgeSources
  /\ IF source.pdf_file # NULL
       THEN /\ IF isPdfOpen THEN swapPdf(source) ELSE openPdf(source, "chat")
            /\ lastCall' = UiCall("handleSourceClick",
                                  IF isPdfOpen THEN "swapPdf" ELSE "openPdf",
                                  Some(source))
            /\ isSourcePanelOpen' = FALSE
            /\ UNCHANGED <<panelSources, panelAvgScore>>
       ELSE /\ panelSources' = IF latestAssistantMessage # NULL
                                 THEN latestAssistantMessage[1].sources[1]
                                 ELSE <<source>>
            /\ panelAvgScore' = latestAvgScore
            /\ isSourcePanelOpen' = TRUE
            /\ lastCall' = UiCall("handleSourceClick", "none", Some(source))
            /\ UNCHANGED selection
  /\ UNCHANGED <<session, elsewhere>>

\* handleSourceClick(source): a click on an evidence badge of the transcript.
handleSourceClick(source) ==
  /\ ChatVisible
  /\ source \in BadgeSources
  /\ IF source.pdf_file # NULL
       THEN /\ IF isPdfOpen THEN swapPdf(source) ELSE openPdf(source, "chat")
            /\ lastCall' = UiCall("handleSourceClick",
                                  IF isPdfOpen THEN "swapPdf" ELSE "openPdf",
                                  Some(source))
            /\ UNCHANGED panel
       ELSE /\ panelSources' = IF latestAssistantMessage # NULL
                                 THEN latestAssistantMessage[1].sources[1]
                                 ELSE <<source>>
            /\ panelAvgScore' = latestAvgScore
            /\ isSourcePanelOpen' = TRUE
            /\ lastCall' = UiCall("handleSourceClick", "none", Some(source))
            /\ UNCHANGED selection
  /\ UNCHANGED <<session, elsewhere>>

\* handleViewAllSources(): a click on the "Sources (n)" button.
handleViewAllSources ==
  /\ ChatVisible
  /\ SourcesButtonShown
  /\ lastCall' = UiCall("handleViewAllSources", "none", NULL)
  /\ IF latestAssistantMessage # NULL
       THEN /\ panelSources' = latestAssistantMessage[1].sources[1]
            /\ panelAvgScore' = latestAvgScore
            /\ isSourcePanelOpen' = TRUE
       ELSE UNCHANGED panel
  /\ UNCHANGED <<session, selection, elsewhere>>

\* handleViewPdfFromPanel(source): a click on "View PDF" on a card of the
\* source panel.
handleViewPdfFromPanel(source) ==
  /\ isSourcePanelOpen
  /\ source \in PanelCards
  /\ IF isPdfOpen THEN swapPdf(source) ELSE openPdf(source, "sources-panel")
  /\ lastCall' = UiCall("handleViewPdfFromPanel",
                        IF isPdfOpen THEN "swapPdf" ELSE "openPdf",
                        Some(source))
  /\ UNCHANGED <<session, panel, elsewhere>>

\* SourcePanel onClose: () => setIsSourcePanelOpen(false)
closeSourcePanel ==
  /\ isSourcePanelOpen
  /\ isSourcePanelOpen' = FALSE
  /\ lastCall' = UiCall("closeSourcePanel", "none", NULL)
  /\ UNCHANGED <<session, selection, panelSources, panelAvgScore, elsewhere>>

\* PDFViewerPanel onClose = closePdf; the viewer renders nothing without a
\* source.
onClosePdf ==
  /\ isPdfOpen
  /\ selectedSource # NULL
  /\ closePdf
  /\ lastCall' = UiCall("onClosePdf", "closePdf", NULL)
  /\ UNCHANGED <<session, panel, elsewhere>>

\* handleSend(message), from ChatInput.handleSubmit: the input is trimmed
\* and sent unless it is blank or a request is in flight.
handleSend(message) ==
  /\ ChatVisible
  /\ trim(message) # <<>>
  /\ ~isLoading
  /\ sendMessage(trim(message))

\* The "Clear chat" button, rendered when the transcript is not empty.
onClearChat ==
  /\ ChatVisible
  /\ Len(messages) > 0
  /\ clearChat

\* What the backend answers in the page's model: evidence with and without
\* documents, no evidence, a second answer with evidence, or a failure.
HomeOutcomes == {HttpOk(Response1), HttpOk(Response2), HttpOk(Response3), NetworkFailure}

HomeNext ==
  \/ handleSend(<<"a">>)
  \/ \E r \in 1..Len(requests) : \E o \in HomeOutcomes \cup {Aborted} : resume(r, o)
  \/ onClearChat
  \/ \E s \in Sources : handleSourceClick(s)
  \/ handleViewAllSources
  \/ \E s \in Sources : handleViewPdfFromPanel(s)
  \/ closeSourcePanel
  \/ onClosePdf
  \/ timeout

\* The page in use: questions are sent, answered and cleared, evidence is
\* clicked in the transcript and in the source panel, the panel and the
\* viewer are closed.  The stop button of ChatInput (cancelRequest) is left
\* to Spec: here a request ends with its outcome or is aborted by Clear chat.
HomeSpec == Init /\ [][HomeNext]_vars

----------------------------------------------------------------------------
\* Document Viewport Tracker: PDFViewerPanel as Home mounts it, with
\* source = selectedSource and isOpen = isPdfOpen.  The component is mounted
\* once, with the page, and never remounted.

\* The evidence shown in the viewer: two items of lecture 1 and one of
\* lecture 2.
ViewerSources == {Source1, Source3, Source5}

\* pdfUrl: the file the Document is given for a source.
pdfUrl(source) == source.pdf_file[1]

\* The number of pages of a file, as its load reports it.
PageCount(file) == IF file = "L01.pdf" THEN 9 ELSE 6

MinScale == 50

MaxScale == 300

ZoomStep == 25

WheelStep == 10

\* History of a step of the viewer: a wheel event records its deltaY sign
\* and whether preventDefault was called.
ViewerCall(op, source, arg, prevented) ==
  [UiCall(op, "none", source) EXCEPT !.arg = arg, !.prevented = prevented]

\* The react-pdf Document is rendered: there is a source, no error, and the
\* library is loaded.
DocumentRendered(source, err, components) ==
  source # NULL /\ err = NULL /\ components = "loaded"

\* The page blocks in the layout (pageRefs): the Document renders its
\* children, one block per page of numPages, once its file is loaded.
PageBlocks ==
  IF document # NULL /\ document[1].status = "loaded" /\ numPages # NULL
    THEN 1..numPages[1]
    ELSE {}

\* The initial-scroll effect, run with the values of one render: it sets a
\* timer for the first page of the source's page range.
scrollEffect(loading, pages, source) ==
  IF ~loading /\ pages # NULL /\ source # NULL /\ source[1].pdf_pages # NULL
    THEN Append(scrollTimers, source[1].pdf_pages[1][1])
    ELSE scrollTimers

\* The commit that follows a change of the source prop to next (a source
\* or null).  The reset effect and the initial-scroll effect run with the
\* values of the render that saw the new prop; the Document, when it stays
\* rendered, reloads if its file changed; the container element is kept
\* only if there was a source before and there is one now.
sourceChanged(next, components) ==
  /\ scale' = DefaultScale
  /\ viewerError' = NULL
  /\ viewerIsLoading' = TRUE
  /\ scrollTimers' = scrollEffect(viewerIsLoading, numPages, next)
  /\ scrollsDone' = <<>>
  /\ wheelListener' = (wheelListener /\ selectedSource # NULL /\ next # NULL)
  /\ scrollListener' = (scrollListener /\ selectedSource # NULL /\ next # NULL)
  /\ document' =
       IF ~DocumentRendered(next, NULL, components) THEN NULL
       ELSE IF document # NULL /\ document[1].file = pdfUrl(next[1])
              THEN document
              ELSE Some([file |-> pdfUrl(next[1]), status |-> "loading"])
  /\ UNCHANGED <<numPages, currentPage, layout>>

\* The import effect: when the viewer is open and react-pdf is absent, the
\* import starts.
importEffect(open) ==
  IF open /\ pdfComponents = "absent" THEN "importing" ELSE pdfComponents

\* A click on evidence with a document: Home opens the viewer or swaps its
\* content, and PDFViewerPanel renders with the new props.
viewEvidence(source) ==
  /\ Len(scrollTimers) < MaxTimers
  /\ IF isPdfOpen THEN swapPdf(source) ELSE openPdf(source, "chat")
  /\ lastCall' = ViewerCall("viewEvidence", Some(source), 0, FALSE)
  /\ pdfComponents' = importEffect(TRUE)
  /\ IF selectedSource = Some(source)
       THEN UNCHANGED <<numPages, currentPage, scale, viewerIsLoading, viewerError,
                        document, scrollTimers, scrollsDone, wheelListener, scrollListener, layout>>
       ELSE sourceChanged(Some(source), pdfComponents)
  /\ UNCHANGED <<session, panel, uniqueSources, route, modal>>

\* The close button of the viewer: closePdf; the source prop stays.
closeViewer ==
  /\ isPdfOpen
  /\ selectedSource # NULL
  /\ closePdf
  /\ lastCall' = ViewerCall("closeViewer", NULL, 0, FALSE)
  /\ UNCHANGED <<session, panel, elsewhere>>

\* The delayed clear of closePdf runs and PDFViewerPanel renders with
\* source = null: it renders nothing.
clearViewer ==
  /\ delayedClear
  /\ lastCall' = ViewerCall("clearViewer", NULL, 0, FALSE)
  /\ IF selectedSource = NULL
       THEN UNCHANGED <<numPages, currentPage, scale, viewerIsLoading, viewerError,
                        document, scrollTimers, scrollsDone, wheelListener, scrollListener, layout>>
       ELSE sourceChanged(NULL, pdfComponents)
  /\ UNCHANGED <<pdfComponents, session, panel, uniqueSources, route, modal>>

\* import("react-pdf") resolves: setPdfComponents; the Document is mounted
\* if there is a source and no error, and starts loading its file.
importResolved ==
  /\ pdfComponents = "importing"
  /\ pdfComponents' = "loaded"
  /\ lastCall' = ViewerCall("importResolved", NULL, 0, FALSE)
  /\ document' = IF DocumentRendered(selectedSource, viewerError, "loaded")
                   THEN Some([file |-> pdfUrl(selectedSource[1]), status |-> "loading"])
                   ELSE NULL
  /\ UNCHANGED <<numPages, currentPage, scale, viewerIsLoading, viewerError,
                  scrollTimers, scrollsDone, wheelListener, scrollListener, layout>>
  /\ UNCHANGED <<session, selection, panel, uniqueSources, route, modal>>

\* onDocumentLoadSuccess({numPages}): the Document has loaded its file.
onDocumentLoadSuccess ==
  /\ document # NULL
  /\ document[1].status = "loading"
  /\ Len(scrollTimers) < MaxTimers
  /\ lastCall' = ViewerCall("onDocumentLoadSuccess", NULL, 0, FALSE)
  /\ document' = Some([document[1] EXCEPT !.status = "loaded"])
  /\ numPages' = Some(PageCount(document[1].file))
  /\ viewerIsLoading' = FALSE
  /\ scrollTimers' =
       IF viewerIsLoading \/ numPages # Some(PageCount(document[1].file))
         THEN scrollEffect(FALSE, Some(PageCount(document[1].file)), selectedSource)
         ELSE scrollTimers
  /\ scrollListener' = (scrollListener \/ numPages # Some(PageCount(document[1].file)))
  /\ UNCHANGED <<currentPage, scale, viewerError, pdfComponents, scrollsDone, wheelListener, layout>>
  /\ UNCHANGED <<session, selection, panel, uniqueSources, route, modal>>

\* Mutant: the load error is reported for a Document that has already
\* loaded its file.
onDocumentLoadError_AfterLoad ==
  /\ document # NULL
  /\ lastCall' = ViewerCall("onDocumentLoadError", NULL, 0, FALSE)
  /\ viewerError' = Some(<<"Failed to load PDF">>)
  /\ viewerIsLoading' = FALSE
  /\ document' = NULL
  /\ UNCHANGED <<numPages, currentPage, scale, pdfComponents, scrollTimers, scrollsDone,
                  wheelListener, scrollListener, layout>>
  /\ UNCHANGED <<session, selection, panel, uniqueSources, route, modal>>

\* onDocumentLoadError(error): the load failed; the error block replaces
\* the Document.
onDocumentLoadError ==
  /\ document # NULL
  /\ document[1].status = "loading"
  /\ Len(scrollTimers) < MaxTimers
  /\ lastCall' = ViewerCall("onDocumentLoadError", NULL, 0, FALSE)
  /\ viewerError' = Some(<<"Failed to load PDF">>)
  /\ viewerIsLoading' = FALSE
  /\ document' = NULL
  /\ scrollTimers' =
       IF viewerIsLoading THEN scrollEffect(FALSE, numPages, selectedSource)
       ELSE scrollTimers
  /\ UNCHANGED <<numPages, currentPage, scale, pdfComponents, scrollsDone, wheelListener, scrollListener, layout>>
  /\ UNCHANGED <<session, selection, panel, uniqueSources, route, modal>>

\* The "Try again" button of the error block.
retry ==
  /\ isPdfOpen
  /\ selectedSource # NULL
  /\ viewerError # NULL
  /\ lastCall' = ViewerCall("retry", NULL, 0, FALSE)
  /\ viewerError' = NULL
  /\ viewerIsLoading' = TRUE
  /\ document' = IF DocumentRendered(selectedSource, NULL, pdfComponents)
                   THEN Some([file |-> pdfUrl(selectedSource[1]), status |-> "loading"])
                   ELSE NULL
  /\ UNCHANGED <<numPages, currentPage, scale, pdfComponents, scrollTimers, scrollsDone,
                  wheelListener, scrollListener, layout>>
  /\ UNCHANGED <<session, selection, panel, uniqueSources, route, modal>>

\* The callback of the initial-scroll effect runs, 100 ms after it was set:
\* it scrolls the page block of its target into view if there is one.
scrollTimerFires ==
  /\ scrollTimers # <<>>
  /\ scrollTimers' = Tail(scrollTimers)
  /\ lastCall' = ViewerCall("scrollTimerFires", NULL, Head(scrollTimers), FALSE)
  /\ scrollsDone' = IF Head(scrollTimers) \in PageBlocks /\ selectedSource # NULL
                      THEN Append(scrollsDone, Head(scrollTimers))
                      ELSE scrollsDone
  /\ UNCHANGED <<numPages, currentPage, scale, viewerIsLoading, viewerError, pdfComponents,
                  document, wheelListener, scrollListener, layout>>
  /\ UNCHANGED <<session, selection, panel, uniqueSources, route, modal>>

\* Mutant: zoomIn has no upper limit.
zoomInScale_Unclamped(s) == s + ZoomStep

\* setScale((s) => Math.min(s + 0.25, 3))
zoomInScale(s) == IF s + ZoomStep < MaxScale THEN s + ZoomStep ELSE MaxScale

\* setScale((s) => Math.max(s - 0.25, 0.5))
zoomOutScale(s) == IF s - ZoomStep > MinScale THEN s - ZoomStep ELSE MinScale

\* handleWheel: delta = deltaY > 0 ? -0.1 : 0.1;
\* setScale((s) => Math.min(Math.max(s + delta, 0.5), 3))
wheelScale(s, deltaY) ==
  LET delta == IF deltaY > 0 THEN 0 - WheelStep ELSE WheelStep
      low == IF s + delta > MinScale THEN s + delta ELSE MinScale
  IN  IF low < MaxScale THEN low ELSE MaxScale

\* The zoom buttons of the toolbar; a button is disabled at its limit.
zoomIn ==
  /\ isPdfOpen
  /\ selectedSource # NULL
  /\ scale < MaxScale
  /\ scale' = zoomInScale(scale)
  /\ lastCall' = ViewerCall("zoomIn", NULL, 0, FALSE)
  /\ UNCHANGED <<numPages, currentPage, viewerIsLoading, viewerError, pdfComponents,
                  document, scrollTimers, scrollsDone, wheelListener, scrollListener, layout>>
  /\ UNCHANGED <<session, selection, panel, uniqueSources, route, modal>>

zoomOut ==
  /\ isPdfOpen
  /\ selectedSource # NULL
  /\ scale > MinScale
  /\ scale' = zoomOutScale(scale)
  /\ lastCall' = ViewerCall("zoomOut", NULL, 0, FALSE)
  /\ UNCHANGED <<numPages, currentPage, viewerIsLoading, viewerError, pdfComponents,
                  document, scrollTimers, scrollsDone, wheelListener, scrollListener, layout>>
  /\ UNCHANGED <<session, selection, panel, uniqueSources, route, modal>>

\* A wheel event on the document container, with or without ctrl/meta held.
\* handleWheel runs only if the listener is attached to this container; the
\* effect that attaches it runs once, when the component is mounted, and
\* returns at once if there is no container then.
wheel(modifier, deltaY) ==
  /\ isPdfOpen
  /\ selectedSource # NULL
  /\ LET handled == wheelListener /\ modifier
     IN  /\ scale' = IF handled THEN wheelScale(scale, deltaY) ELSE scale
         /\ lastCall' = ViewerCall(IF modifier THEN "ctrlWheel" ELSE "wheel",
                                   NULL, deltaY, handled)
  /\ UNCHANGED <<numPages, currentPage, viewerIsLoading, viewerError, pdfComponents,
                  document, scrollTimers, scrollsDone, wheelListener, scrollListener, layout>>
  /\ UNCHANGED <<session, selection, panel, uniqueSources, route, modal>>

ViewerNext ==
  \/ \E s \in ViewerSources : viewEvidence(s)
  \/ closeViewer
  \/ clearViewer
  \/ importResolved
  \/ onDocumentLoadSuccess
  \/ onDocumentLoadError
  \/ retry
  \/ scrollTimerFires
  \/ zoomIn
  \/ zoomOut
  \/ \E m \in BOOLEAN : \E d \in {-1, 1} : wheel(m, d)

\* Timers run out, the import resolves and a load ends, one way or the
\* other.
ViewerSpec ==
  /\ Init
  /\ [][ViewerNext]_vars
  /\ WF_vars(clearViewer)
  /\ WF_vars(importResolved)
  /\ WF_vars(onDocumentLoadSuccess \/ onDocumentLoadError)
  /\ WF_vars(scrollTimerFires)

----------------------------------------------------------------------------
\* Current-page tracking of PDFViewerPanel: the scroll listener and
\* handleScroll.  A rectangle is a top and a height, in layout units; the
\* page blocks are listed in the order of pageRefs, which is the order of
\* the pages.  The centres are compared after multiplication by 6, which
\* keeps the thirds and the halves exact.

MaxBlocks == 2

Rect(top, height) == [top |-> top, height |-> height]

Block(page, top, height) == [page |-> page, top |-> top, height |-> height]

Abs(x) == IF x < 0 THEN 0 - x ELSE x

\* 6 * |pageCenter - containerCenter|, with
\* containerCenter = containerRect.top + containerRect.height / 3 and
\* pageCenter = rect.top + rect.height / 2.
distance6(container, rect) ==
  Abs((6 * rect.top + 3 * rect.height) - (6 * container.top + 2 * container.height))

\* Mutant: a later page at the same distance replaces the earlier one.
RECURSIVE closestScan_LastWins(_, _, _, _)
closestScan_LastWins(container, blocks, closestPage, closestDistance) ==
  IF blocks = <<>> THEN closestPage
  ELSE LET distance == distance6(container, Head(blocks))
       IN  IF closestDistance = NULL \/ distance <= closestDistance[1]
             THEN closestScan_LastWins(container, Tail(blocks), Head(blocks).page,
                                       Some(distance))
             ELSE closestScan_LastWins(container, Tail(blocks), closestPage, closestDistance)

\* The forEach of handleScroll over pageRefs; closestDistance is Infinity
\* (NULL) before the first block.
RECURSIVE closestScan(_, _, _, _)
closestScan(container, blocks, closestPage, closestDistance) ==
  IF blocks = <<>> THEN closestPage
  ELSE LET distance == distance6(container, Head(blocks))
       IN  IF closestDistance = NULL \/ distance < closestDistance[1]
             THEN closestScan(container, Tail(blocks), Head(blocks).page, Some(distance))
             ELSE closestScan(container, Tail(blocks), closestPage, closestDistance)

\* Mutant of closestPage: ties go to the later page.
closestPage_LastWins(geometry) ==
  closestScan_LastWins(geometry.container, geometry.blocks, 1, NULL)

\* handleScroll: the page handed to setCurrentPage.
closestPage(geometry) == closestScan(geometry.container, geometry.blocks, 1, NULL)

\* The rectangles handleScroll is checked on: a container and up to
\* MaxBlocks page blocks above, across and below the reference point, some
\* of them at equal distances from it.
BlockTops == {-4, 0, 2, 5}

BlockHeights == {2, 4}

Containers == {Rect(0, 6), Rect(1, 3)}

Geometries ==
  {[container |-> c, blocks |-> [i \in 1..n |-> Block(i, tops[i], heights[i])]] :
     <<c, n, tops, heights>> \in
       {x \in Containers \X (0..MaxBlocks)
             \X [1..MaxBlocks -> BlockTops] \X [1..MaxBlocks -> BlockHeights] :
          \A i \in 1..MaxBlocks : i > x[2] => (x[3][i] = 0 /\ x[4][i] = 2)}}

\* handleScroll() on page blocks with these rectangles.
handleScroll(geometry) ==
  /\ layout' = geometry
  /\ currentPage' = closestPage(geometry)
  /\ lastCall' = ViewerCall("handleScroll", NULL, 0, FALSE)
  /\ UNCHANGED <<numPages, scale, viewerIsLoading, viewerError, pdfComponents, document,
                  scrollTimers, scrollsDone, wheelListener, scrollListener>>
  /\ UNCHANGED <<session, selection, panel, uniqueSources, route, modal>>

ClosestNext == \E geometry \in Geometries : handleScroll(geometry)

\* handleScroll as a function of the rectangles.
ClosestSpec == Init /\ [][ClosestNext]_vars

ViewportTop == 1

ViewportHeight == 6

PageHeight == 4

PageGap == 1

\* The scroll positions tried: the container scrolled by this many pages.
ScrollStops == {0, 5, 8}

\* The rectangles of the container and of the page blocks in the layout
\* when the container is scrolled down by pagesDown pages: the blocks are
\* stacked, each PageHeight high, PageGap apart.
Scrolled(pagesDown) ==
  [container |-> Rect(ViewportTop, ViewportHeight),
   blocks |-> [i \in 1..Cardinality(PageBlocks) |->
                 Block(i, ViewportTop + (i - 1 - pagesDown) * (PageHeight + PageGap),
                       PageHeight)]]

\* A scroll event on the document container, scrolled down by pagesDown
\* pages: handleScroll runs if the listener is attached to this container.
scroll(pagesDown) ==
  /\ selectedSource # NULL
  /\ pagesDown = 0 \/ pagesDown < Cardinality(PageBlocks)
  /\ layout' = Scrolled(pagesDown)
  /\ currentPage' = IF scrollListener THEN closestPage(Scrolled(pagesDown)) ELSE currentPage
  /\ lastCall' = ViewerCall("scroll", NULL, pagesDown, FALSE)
  /\ UNCHANGED <<numPages, scale, viewerIsLoading, viewerError, pdfComponents, document,
                  scrollTimers, scrollsDone, wheelListener, scrollListener>>
  /\ UNCHANGED <<session, selection, panel, uniqueSources, route, modal>>

TrackNext ==
  \/ \E s \in ViewerSources : viewEvidence(s)
  \/ closeViewer
  \/ clearViewer
  \/ importResolved
  \/ onDocumentLoadSuccess
  \/ onDocumentLoadError
  \/ retry
  \/ scrollTimerFires
  \/ \E pagesDown \in ScrollStops : scroll(pagesDown)

\* The viewer opened, swapped, closed and scrolled; the zoom is left to
\* ViewerSpec.
TrackSpec ==
  /\ Init
  /\ [][TrackNext]_vars
  /\ WF_vars(clearViewer)
  /\ WF_vars(importResolved)
  /\ WF_vars(onDocumentLoadSuccess \/ onDocumentLoadError)
  /\ WF_vars(scrollTimerFires)

----------------------------------------------------------------------------
\* PDFViewerModal, the single-page viewer, as the page of
\* components/chat mounts it: source = selectedSource, isOpen = isPdfOpen.
\* The dialog renders its content, and with it the Document, only while it
\* is open; the component itself keeps its state.  The import of react-pdf
\* is counted into the time the Document takes to load.  The specification
\* covers opening, closing, loading and page navigation.

\* The arguments goToPage is called with: below, inside and above every
\* page count.
PageArgs == -2..11

\* The Document of the modal is rendered and so loads its file.
ModalDocumentRendered(source, open, err) ==
  source # NULL /\ open /\ err = NULL

\* The reset effect of the modal for the source prop next (a source or
\* null), then the Document: it is kept if it was rendered for the same
\* file, else it loads.
modalSourceChanged(next, open) ==
  [modal EXCEPT
     !.currentPage = IF next # NULL /\ next[1].pdf_pages # NULL
                       THEN next[1].pdf_pages[1][1] ELSE 1,
     !.scale = ModalDefaultScale,
     !.error = NULL,
     !.isLoading = TRUE,
     !.status = IF ~ModalDocumentRendered(next, open, NULL) THEN "none"
                ELSE IF /\ modal.status # "none"
                        /\ selectedSource # NULL
                        /\ pdfUrl(selectedSource[1]) = pdfUrl(next[1])
                       THEN modal.status
                       ELSE "loading"]

\* A click on evidence with a document: openPdf(source).  The dialog traps
\* the pointer while it is shown.
modalOpen(source) ==
  /\ ~isPdfOpen \/ selectedSource = NULL
  /\ openPdf(source, "chat")
  /\ lastCall' = ViewerCall("modalOpen", Some(source), 0, FALSE)
  /\ modal' = IF selectedSource = Some(source)
                THEN [modal EXCEPT !.status =
                        IF ModalDocumentRendered(Some(source), TRUE, modal.error)
                          THEN "loading" ELSE "none"]
                ELSE modalSourceChanged(Some(source), TRUE)
  /\ UNCHANGED <<session, panel, viewer, uniqueSources, route>>

\* onOpenChange(false): onClose = closePdf; the dialog content is removed.
modalClose ==
  /\ isPdfOpen
  /\ selectedSource # NULL
  /\ closePdf
  /\ lastCall' = ViewerCall("modalClose", NULL, 0, FALSE)
  /\ modal' = [modal EXCEPT !.status = "none"]
  /\ UNCHANGED <<session, panel, viewer, uniqueSources, route>>

\* The delayed clear of closePdf runs and the modal renders with
\* source = null.
modalClear ==
  /\ delayedClear
  /\ lastCall' = ViewerCall("modalClear", NULL, 0, FALSE)
  /\ modal' = IF selectedSource = NULL THEN modal ELSE modalSourceChanged(NULL, isPdfOpen)
  /\ UNCHANGED <<session, panel, viewer, uniqueSources, route>>

\* PDFViewerModal.onDocumentLoadSuccess({numPages}).
modalLoadSuccess ==
  /\ modal.status = "loading"
  /\ lastCall' = ViewerCall("modalLoadSuccess", NULL, 0, FALSE)
  /\ modal' = [modal EXCEPT !.numPages = Some(PageCount(pdfUrl(selectedSource[1]))),
                             !.isLoading = FALSE,
                             !.status = "loaded"]
  /\ UNCHANGED <<session, selection, panel, viewer, uniqueSources, route>>

\* PDFViewerModal.onDocumentLoadError(error): the error block replaces the
\* Document.
modalLoadError ==
  /\ modal.status = "loading"
  /\ lastCall' = ViewerCall("modalLoadError", NULL, 0, FALSE)
  /\ modal' = [modal EXCEPT !.error = Some(<<"Failed to load PDF">>),
                             !.isLoading = FALSE,
                             !.status = "none"]
  /\ UNCHANGED <<session, selection, panel, viewer, uniqueSources, route>>

\* The "Try again" button of the modal.
modalRetry ==
  /\ isPdfOpen
  /\ selectedSource # NULL
  /\ modal.error # NULL
  /\ lastCall' = ViewerCall("modalRetry", NULL, 0, FALSE)
  /\ modal' = [modal EXCEPT !.error = NULL, !.isLoading = TRUE, !.status = "loading"]
  /\ UNCHANGED <<session, selection, panel, viewer, uniqueSources, route>>

\* Mutant: goToPage without the lower limit.
goToPageResult_NoLowerLimit(page, pages, current) ==
  IF pages # NULL /\ pages[1] # 0
    THEN IF page < pages[1] THEN page ELSE pages[1]
    ELSE current

\* if (numPages) setCurrentPage(Math.max(1, Math.min(page, numPages)))
goToPageResult(page, pages, current) ==
  IF pages # NULL /\ pages[1] # 0
    THEN LET least == IF page < pages[1] THEN page ELSE pages[1]
         IN  IF least > 1 THEN least ELSE 1
    ELSE current

\* PDFViewerModal.goToPage(page); the previous and next buttons call it
\* with currentPage - 1 and currentPage + 1.
goToPage(page) ==
  /\ isPdfOpen
  /\ selectedSource # NULL
  /\ lastCall' = ViewerCall("goToPage", NULL, page, FALSE)
  /\ modal' = [modal EXCEPT
                 !.currentPage = goToPageResult(page, modal.numPages, modal.currentPage)]
  /\ UNCHANGED <<session, selection, panel, viewer, uniqueSources, route>>

ModalNext ==
  \/ \E s \in ViewerSources : modalOpen(s)
  \/ modalClose
  \/ modalClear
  \/ modalLoadSuccess
  \/ modalLoadError
  \/ modalRetry
  \/ \E page \in PageArgs : goToPage(page)

ModalSpec == Init /\ [][ModalNext]_vars

----------------------------------------------------------------------------
\* The query endpoint: POST of app/api/query/route.ts.  A string is a
\* sequence of runs, each a count of whitespace or of other characters;
\* numbers are kept in tenths (5 = 50).

MaxQuestionLength == 2000

MinTopK == 10

MaxTopK == 100

DefaultTopK == 50

Run(ws, n) == [ws |-> ws, n |-> n]

RECURSIVE StringLength(_)
\* String.prototype.length
StringLength(runs) ==
  IF runs = <<>> THEN 0 ELSE Head(runs).n + StringLength(Tail(runs))

\* The runs of a string after its leading whitespace.
RECURSIVE trimRunsStart(_)
trimRunsStart(runs) ==
  IF runs # <<>> /\ Head(runs).ws THEN trimRunsStart(Tail(runs)) ELSE runs

\* The runs of a string before its trailing whitespace.
RECURSIVE trimRunsEnd(_)
trimRunsEnd(runs) ==
  IF runs # <<>> /\ runs[Len(runs)].ws
    THEN trimRunsEnd(SubSeq(runs, 1, Len(runs) - 1))
    ELSE runs

\* String.prototype.trim
trimRuns(runs) == trimRunsEnd(trimRunsStart(runs))

\* The string of lead whitespace characters, the runs of core, and trail
\* whitespace characters.
Padded(lead, core, trail) ==
  (IF lead > 0 THEN <<Run(TRUE, lead)>> ELSE <<>>)
    \o core
    \o (IF trail > 0 THEN <<Run(TRUE, trail)>> ELSE <<>>)

\* Question texts without outer whitespace: empty, one character, and
\* around the limit, one of them with whitespace inside.
Cores ==
  {<<>>,
   <<Run(FALSE, 1)>>,
   <<Run(FALSE, MaxQuestionLength - 1)>>,
   <<Run(FALSE, MaxQuestionLength)>>,
   <<Run(FALSE, MaxQuestionLength + 1)>>,
   <<Run(FALSE, 1000), Run(TRUE, 1), Run(FALSE, MaxQuestionLength - 1001)>>}

Undefined == [kind |-> "undefined"]

JsNumber(n) == [kind |-> "number", value |-> n]

JsString(runs) == [kind |-> "string", runs |-> runs]

\* The values of body.question: absent, a number (0 is falsy), a string.
QuestionValues ==
  {Undefined, JsNumber(0), JsNumber(70)}
    \cup {JsString(Padded(lead, core, trail)) :
             lead \in {0, 2}, core \in Cores, trail \in {0, 1}}

\* The values of body.top_k: absent, numbers below, inside and above the
\* range (2.5 among them), a string.
TopKValues ==
  {Undefined, JsString(<<Run(FALSE, 1)>>)}
    \cup {JsNumber(n) : n \in {-30, 0, 5, 10, 25, 70, 100, 110}}

\* What request.json() yields: it throws on a body that is not JSON; the
\* JSON may be null, a scalar, or an object.
Bodies ==
  {[json |-> "unparseable"], [json |-> "null"], [json |-> "scalar"]}
    \cup {[json |-> "object", question |-> q, top_k |-> k] :
             q \in QuestionValues, k \in TopKValues}

\* What the fetch to the backend does: a 2xx answer, an answer that is not
\* ok with or without a JSON message, or a network failure.
BackendOutcomes ==
  {[kind |-> "ok", data |-> Response1],
   [kind |-> "notok", status |-> 429, message |-> Some(<<"rate", "limit">>), limit |-> Some(10)],
   [kind |-> "notok", status |-> 500, message |-> NULL, limit |-> NULL],
   [kind |-> "failed"]}

\* NextResponse.json({error, message}, {status})
ErrorResponse(status, err, message) ==
  [status |-> status, error |-> Some(err), message |-> message, data |-> NULL]

\* !body.question: undefined, 0 and the empty string are falsy.
Falsy(value) ==
  \/ value.kind = "undefined"
  \/ value.kind = "number" /\ value.value = 0
  \/ value.kind = "string" /\ value.runs = <<>>

\* typeof body.top_k === "number" ? Math.min(Math.max(1, body.top_k), 10) : 5
topK(value) ==
  IF value.kind = "number"
    THEN LET low == IF value.value > MinTopK THEN value.value ELSE MinTopK
         IN  IF low < MaxTopK THEN low ELSE MaxTopK
    ELSE DefaultTopK

\* The answer of the route to what the backend did.
BackendResponse(outcome) ==
  CASE outcome.kind = "ok" ->
         [status |-> 200, error |-> NULL, message |-> NULL, data |-> Some(outcome.data)]
    [] outcome.kind = "notok" ->
         ErrorResponse(outcome.status, "Backend error",
                       IF outcome.message # NULL THEN outcome.message
                       ELSE <<"Backend returned", outcome.status>>)
    [] outcome.kind = "failed" ->
         ErrorResponse(503, "Connection error", <<"Unable to connect to backend server">>)

\* The handler of POST for a request with this body, the backend doing
\* outcome if it is asked: what is forwarded and what is answered.
handled(body, outcome) ==
       IF body.json \in {"unparseable", "null"}
         THEN [body |-> Some(body), forwarded |-> <<>>, raised |-> NULL,
               response |-> Some(ErrorResponse(500, "Internal error",
                                               <<"An unexpected error occurred">>))]
       ELSE IF body.json = "scalar" \/ Falsy(body.question) \/ body.question.kind # "string"
         THEN [body |-> Some(body), forwarded |-> <<>>, raised |-> NULL,
               response |-> Some(ErrorResponse(400, "Invalid request",
                                               <<"Question is required">>))]
       ELSE LET question == trimRuns(body.question.runs)
            IN  IF StringLength(question) = 0
                  THEN [body |-> Some(body), forwarded |-> <<>>, raised |-> NULL,
                        response |-> Some(ErrorResponse(400, "Invalid request",
                                                        <<"Question cannot be empty">>))]
                ELSE IF StringLength(question) > MaxQuestionLength
                  THEN [body |-> Some(body), forwarded |-> <<>>, raised |-> NULL,
                        response |-> Some(ErrorResponse(400, "Invalid request",
                                                        <<"Question is too long">>))]
                ELSE [body |-> Some(body), raised |-> NULL,
                      forwarded |-> <<[question |-> question, top_k |-> topK(body.top_k)]>>,
                      response |-> Some(BackendResponse(outcome))]

\* POST(request): the whole handler, with the body the request carries
\* and what the backend does if it is asked.
POST(body, outcome) ==
  /\ lastCall' = UiCall("POST", "none", NULL)
  /\ route' = handled(body, outcome)
  /\ UNCHANGED <<session, selection, panel, viewer, uniqueSources, modal>>

\* What the fetch of APIClient.query gets from the endpoint: the status and
\* the JSON body of the answer of POST.
fetched(response) ==
  IF response.status = 200
    THEN HttpOk(response.data[1])
    ELSE HttpError(response.status, TRUE, response.message, response.error, NULL,
                   <<"status", response.status>>)

\* APIClient.query({question}) through the endpoint: the request body is
\* JSON.stringify({question}), and what query returns or throws is kept in
\* raised.
queryThrough(question, outcome) ==
  LET answer == handled([json |-> "object", question |-> JsString(question),
                         top_k |-> Undefined], outcome)
  IN  [answer EXCEPT !.raised = Some(queryResult(fetched(answer.response[1])))]

\* apiClient.query as useChat calls it, with a trimmed question that is
\* not empty, answered by the endpoint and the backend behind it.
apiQuery(question, outcome) ==
  /\ lastCall' = [UiCall("apiQuery", "none", NULL) EXCEPT !.outcome = Some(outcome)]
  /\ route' = queryThrough(question, outcome)
  /\ UNCHANGED <<session, selection, panel, viewer, uniqueSources, modal>>

RouteNext ==
  \/ \E body \in Bodies : \E outcome \in BackendOutcomes : POST(body, outcome)
  \/ \E question \in Cores \ {<<>>} : \E outcome \in BackendOutcomes :
       apiQuery(question, outcome)

RouteSpec == Init /\ [][RouteNext]_vars

----------------------------------------------------------------------------
\* Source Deduplicator: deduplicateSources as the source panel applies it.

DedupeItems == {Source1, Source2, Source3, Source4, Source5}

RECURSIVE ListsUpTo(_)
ListsUpTo(n) ==
  IF n = 0 THEN {<<>>}
  ELSE LET shorter == ListsUpTo(n - 1)
       IN  shorter \cup {Append(xs, x) : xs \in {l \in shorter : Len(l) = n - 1}, x \in DedupeItems}

\* Home hands the panel an evidence list and SourcePanel renders:
\* const uniqueSources = deduplicateSources(sources).  The function reads
\* its argument and builds a new Map and a new array.
renderSourcePanel(sources) ==
  /\ panelSources' = sources
  /\ uniqueSources' = deduplicateSources(sources)
  /\ lastCall' = UiCall("renderSourcePanel", "none", NULL)
  /\ UNCHANGED <<session, selection, isSourcePanelOpen, panelAvgScore, viewer, route, modal>>

DedupeNext == \E sources \in ListsUpTo(MaxSources) : renderSourcePanel(sources)

DedupeSpec == Init /\ [][DedupeNext]_vars

----------------------------------------------------------------------------
\* Vocabulary of the properties.

Requests == 1..Len(requests)

\* Request r's promise settles in this step: sendMessage resumes on it.
Settles(r) == Pending(r) /\ requests'[r].promise = "settled"

\* The step is a call of sendMessage with question q.
SendCalled(q) == lastCall'.op = "sendMessage" /\ lastCall'.question = Some(q)

IsBlank(q) == \A i \in 1..Len(q) : q[i] = " "

\* q without its leading and trailing whitespace.
Trimmed(q) ==
  LET ink == {i \in 1..Len(q) : q[i] # " "}
  IN  IF ink = {} THEN <<>>
      ELSE SubSeq(q, CHOOSE i \in ink : \A j \in ink : i <= j,
                     CHOOSE i \in ink : \A j \in ink : i >= j)

Last(seq) == seq[Len(seq)]

IsPrefix(a, b) == Len(a) <= Len(b) /\ SubSeq(b, 1, Len(a)) = a

\* Message m is an assistant message that carries evidence: its evidence
\* list is present and has at least one item.
CarriesEvidence(m) ==
  m.role = "assistant" /\ m.sources # NULL /\ Len(m.sources[1]) > 0

EvidenceMessages == {i \in 1..Len(messages) : CarriesEvidence(messages[i])}

\* The most recent assistant message that carries evidence.
MostRecentEvidence ==
  messages[CHOOSE i \in EvidenceMessages : \A j \in EvidenceMessages : i >= j]

\* The successful answers of the transcript: the assistant messages that
\* have an evidence list, empty or not (an error reply has none).
Answers ==
  {i \in 1..Len(messages) : messages[i].role = "assistant" /\ messages[i].sources # NULL}

LatestAnswer == messages[CHOOSE i \in Answers : \A j \in Answers : i >= j]

\* Deduplication, stated on the list: the positions of breadcrumb b in xs,
\* the position kept for b (the first one with the highest score of the
\* group), and the place of b among the breadcrumbs by first occurrence.
Breadcrumbs(xs) == {xs[i].breadcrumb : i \in 1..Len(xs)}

Group(xs, b) == {i \in 1..Len(xs) : xs[i].breadcrumb = b}

Keeper(xs, b) ==
  CHOOSE i \in Group(xs, b) :
    /\ \A j \in Group(xs, b) : xs[j].relevance_score <= xs[i].relevance_score
    /\ \A j \in Group(xs, b) : xs[j].relevance_score = xs[i].relevance_score => i <= j

FirstOf(xs, b) == CHOOSE i \in Group(xs, b) : \A j \in Group(xs, b) : i <= j

Rank(xs, b) == Cardinality({c \in Breadcrumbs(xs) : FirstOf(xs, c) < FirstOf(xs, b)}) + 1

DedupeReference(xs) ==
  [k \in 1..Cardinality(Breadcrumbs(xs)) |->
     xs[Keeper(xs, CHOOSE b \in Breadcrumbs(xs) : Rank(xs, b) = k)]]

\* The step is a click on evidence item lastCall'.source[1] in the chat
\* transcript, or on its card in the source panel.
ChatClick == lastCall'.op = "handleSourceClick"

PanelClick == lastCall'.op = "handleViewPdfFromPanel"

HasDocument == lastCall'.source[1].pdf_file # NULL

\* Text t occurs in text c as a run of tokens.
Embeds(c, t) == \E i \in 0..(Len(c) - Len(t)) : SubSeq(c, i + 1, i + Len(t)) = t

----------------------------------------------------------------------------
\* C1: the resolution of a request A that is no longer the newest one (send
\* was accepted again before A's result was applied) is discarded: the step
\* in which A settles changes neither the transcript nor in_flight nor
\* last_error.
C1_StaleResolutionDiscarded ==
  [][\A r \in Requests :
       (Settles(r) /\ r < Len(requests))
         => (messages' = messages /\ isLoading' = isLoading /\ error' = error)]_vars

\* C2: cancel() with a request in flight sets in_flight to false and leaves
\* the transcript as it is, and the later resolution of the request it
\* aborted appends nothing either.
C2_CancelKeepsTranscript ==
  [][/\ (lastCall'.op = "cancelRequest" /\ Outstanding # {})
          => (isLoading' = FALSE /\ messages' = messages)
     /\ \A r \in Requests :
          (Settles(r) /\ requests[r].abortedBy = "cancelRequest")
            => messages' = messages]_vars

\* C3: in the state right after clear() returns the transcript is empty,
\* last_error is cleared and in_flight is false, whatever the state before.
C3_ClearResets ==
  lastCall.op = "clearChat" => (messages = <<>> /\ error = NULL /\ isLoading = FALSE)

\* C4: a request that was in flight when clear() was called does not mutate
\* the session when it resolves: transcript and last_error stay as they are.
C4_ClearedRequestInert ==
  [][\A r \in Requests :
       (Settles(r) /\ requests[r].abortedBy = "clearChat")
         => (messages' = messages /\ error' = error)]_vars

\* C5: at most one unresolved request holds a token that is not invalidated,
\* and that token is the one in the single slot; every other unresolved
\* request has had its token invalidated.
C5_SingleValidToken ==
  /\ Cardinality(Outstanding) <= 1
  /\ \A r \in Outstanding : abortController = r

\* C5 witness: a request superseded by a newer query is still unresolved
\* while the newer request is outstanding.
C5_Witness ==
  \E r \in AbortedPending : requests[r].abortedBy = "query" /\ Outstanding # {}

\* C6: while a request is outstanding (issued, not resolved, not cancelled)
\* every call of send is a no-op.
C6_BusySendIsNoop ==
  [][(lastCall'.op = "sendMessage" /\ Outstanding # {}) => UNCHANGED session]_vars

\* C7: send(q) with q empty or whitespace only is a no-op in every state.
C7_BlankSendIsNoop ==
  [][\A q \in Questions : (SendCalled(q) /\ IsBlank(q)) => UNCHANGED session]_vars

\* C7 witness: a whitespace-only question was sent while nothing was in
\* flight and the transcript was not empty.
C7_Witness ==
  /\ lastCall.op = "sendMessage"
  /\ lastCall.question = Some(<<" ", " ">>)
  /\ ~isLoading /\ ~loadingRef
  /\ messages # <<>>

\* C8: an accepted send(q) (nothing in flight, q not blank) appends exactly
\* one user message whose content is q trimmed, sets in_flight, clears
\* last_error and issues exactly one request carrying q trimmed.
C8_AcceptedSend ==
  [][\A q \in Questions :
       (SendCalled(q) /\ ~isLoading /\ ~IsBlank(q)) =>
         /\ Len(messages') = Len(messages) + 1
         /\ IsPrefix(messages, messages')
         /\ Last(messages').role = "user"
         /\ Last(messages').content = Trimmed(q)
         /\ isLoading' = TRUE
         /\ error' = NULL
         /\ Len(requests') = Len(requests) + 1
         /\ Last(requests').question = Trimmed(q)
         /\ Last(requests').promise = "pending"
         /\ Last(requests').signal = "active"]_vars

\* C8 witness: the padded question was accepted with earlier messages in the
\* transcript; its request is outstanding.
C8_Witness ==
  /\ lastCall.op = "sendMessage"
  /\ lastCall.question = Some(<<" ", "b", " ">>)
  /\ isLoading
  /\ Len(messages) >= 3
  /\ Last(messages).content = <<"b">>
  /\ Outstanding = {Len(requests)}

\* C9: when the request of an accepted send succeeds without having been
\* cancelled, exactly one assistant message is appended, after that send's
\* user message, carrying the response's answer, evidence, confidence and
\* timing stats, and in_flight is false afterwards.
C9_SuccessAppendsAnswer ==
  [][\A r \in Requests : \A resp \in Responses :
       (Settles(r) /\ r \in Outstanding /\ lastCall'.outcome = Some(HttpOk(resp))) =>
         /\ messages' = Append(messages,
              [role |-> "assistant", content |-> resp.answer,
               sources |-> Some(resp.sources),
               confidence |-> Some(resp.confidence),
               stats |-> Some([retrieval_time_ms |-> resp.retrieval_stats.retrieval_time_ms,
                               generation_time_ms |-> resp.metadata.generation_time_ms,
                               avg_score |-> resp.retrieval_stats.avg_score])])
         /\ \E i \in 1..Len(messages) :
              messages[i].role = "user" /\ messages[i].content = requests[r].question
         /\ isLoading' = FALSE]_vars

\* C9 witness: a request succeeded and its answer, with evidence, ends the
\* transcript.
C9_Witness ==
  /\ lastCall.op = "resume"
  /\ lastCall.outcome = Some(HttpOk(Response1))
  /\ requests[lastCall.request].signal = "active"
  /\ Len(messages) >= 2
  /\ Last(messages).sources = Some(Response1.sources)
  /\ ~isLoading

\* The outcomes of a request that failed: rate limit, other non-2xx,
\* connection failure.
Failures == {o \in Outcomes : o.type = "rejected" \/ ~o.ok}

\* C10: when the request of an accepted send fails, last_error is set to the
\* error text, exactly one assistant message without evidence is appended
\* whose content embeds that text, and in_flight is false afterwards.  The
\* text is the message of the backend's error body when it has one.
C10_FailureAppendsError ==
  [][\A r \in Requests : \A o \in Failures :
       (Settles(r) /\ r \in Outstanding /\ lastCall'.outcome = Some(o)) =>
         /\ error' # NULL
         /\ error'[1] # <<>>
         /\ (o.type = "response" /\ o.body.parsed /\ o.body.message # NULL)
              => error'[1] = o.body.message
         /\ Len(messages') = Len(messages) + 1
         /\ IsPrefix(messages, messages')
         /\ Last(messages').role = "assistant"
         /\ Last(messages').sources = NULL
         /\ Embeds(Last(messages').content, error'[1])
         /\ isLoading' = FALSE]_vars

\* C10 witness: a request was answered 429 "Too many requests"; the text is
\* recorded and the transcript ends with the message that embeds it.
C10_Witness ==
  /\ lastCall.op = "resume"
  /\ lastCall.outcome # NULL
  /\ lastCall.outcome[1] \in Failures
  /\ lastCall.outcome[1].type = "response"
  /\ lastCall.outcome[1].status = 429
  /\ error = Some(<<"Too many requests">>)
  /\ Embeds(Last(messages).content, <<"Too many requests">>)
  /\ ~isLoading

----------------------------------------------------------------------------
\* C11: under FairSpec (every pending request resolves) a session that is in
\* flight is eventually not in flight: no failure, abort or cancellation
\* leaves in_flight true for ever.
C11_InFlightEnds == isLoading ~> ~isLoading

\* C11 witness: the request of an accepted send failed, and the session is
\* not in flight.
C11_Witness ==
  /\ lastCall.op = "resume"
  /\ lastCall.outcome = Some(NetworkFailure)
  /\ messages # <<>>
  /\ ~isLoading

\* C12: the transcript is append-only: a step leaves it unchanged, extends it
\* by one message at the end, or is a clear() that empties it.
C12_AppendOnly ==
  [][\/ messages' = messages
     \/ Len(messages') = Len(messages) + 1 /\ IsPrefix(messages, messages')
     \/ lastCall'.op = "clearChat" /\ messages' = <<>>]_vars

\* C12 witness: a transcript of four messages, grown one message at a time.
C12_Witness == Len(messages) >= 4 /\ lastCall.op = "resume"

\* C13: in the Selection Coordinator, whatever the order of openPdf, swapPdf,
\* closePdf and the delayed clear, an open viewer has active evidence
\* (isPdfOpen implies selectedSource is not null), and the evidence is set
\* to null only in a state where the viewer is closed.
C13_OpenViewerHasEvidence ==
  /\ [](isPdfOpen => selectedSource # NULL)
  /\ [][(selectedSource # NULL /\ selectedSource' = NULL) => ~isPdfOpen]_vars

\* C14: an openPdf called in the delay window after closePdf wins: a
\* delayed clear that runs while the viewer is open again leaves the active
\* evidence and the origin as the open set them.
C14_ReopenWins ==
  [][(lastCall'.op = "timeout" /\ isPdfOpen)
       => (selectedSource' = selectedSource /\ pdfOrigin' = pdfOrigin)]_vars

\* C16: closePdf sets isPdfOpen to false in the same step and leaves the
\* active evidence and the origin as they were; a delayed clear that is
\* pending leads to a state where the evidence is null and the origin is
\* chat, and with no openPdf or swapPdf after the close they stay so.
C16_CloseThenDelayedClear ==
  /\ [][lastCall'.hook = "closePdf"
          => (/\ ~isPdfOpen'
              /\ selectedSource' = selectedSource
              /\ pdfOrigin' = pdfOrigin
              /\ timers' = timers + 1)]_vars
  /\ (timers > 0) ~> (selectedSource = NULL /\ pdfOrigin = "chat")
  /\ [][(selectedSource = NULL /\ pdfOrigin = "chat"
          /\ lastCall'.hook \notin {"openPdf", "swapPdf"})
          => (selectedSource' = NULL /\ pdfOrigin' = "chat")]_vars

\* The viewer showed evidence opened from the source panel and has just been
\* closed: the evidence and the origin are still in place, the clear is
\* pending.
C16_Witness ==
  /\ lastCall.hook = "closePdf"
  /\ ~isPdfOpen
  /\ timers = 1
  /\ selectedSource = Some(Source3)
  /\ pdfOrigin = "sources-panel"

\* C15: swapPdf(e) replaces the active evidence by e and leaves isPdfOpen
\* and pdfOrigin as they are; a click on evidence with a document, in the
\* chat or in the source panel, while the viewer is open is such a swap: the
\* viewer is open before and after, with the clicked item as active evidence.
C15_SwapKeepsViewer ==
  [][/\ lastCall'.hook = "swapPdf"
          => (/\ selectedSource' = lastCall'.source
              /\ isPdfOpen' = isPdfOpen
              /\ pdfOrigin' = pdfOrigin)
     /\ ((ChatClick \/ PanelClick) /\ HasDocument /\ isPdfOpen)
          => (lastCall'.hook = "swapPdf" /\ isPdfOpen')]_vars

\* The viewer was opened from the source panel and another click in the
\* panel has swapped its content: it is open with origin sources-panel.
C15_Witness ==
  /\ lastCall.op = "handleViewPdfFromPanel"
  /\ lastCall.hook = "swapPdf"
  /\ isPdfOpen
  /\ selectedSource = Some(Source3)
  /\ pdfOrigin = "sources-panel"

\* C17: a click on an evidence item in the chat transcript: with a document,
\* the viewer is open afterwards with the item as active evidence and the
\* source panel's open flag, contents and score are unchanged; without a
\* document, the source panel is open afterwards and isPdfOpen,
\* selectedSource and pdfOrigin are unchanged.
C17_ChatClickRouting ==
  [][ChatClick =>
       IF HasDocument
         THEN /\ isPdfOpen'
              /\ selectedSource' = lastCall'.source
              /\ UNCHANGED <<isSourcePanelOpen, panelSources, panelAvgScore>>
         ELSE /\ isSourcePanelOpen'
              /\ UNCHANGED <<isPdfOpen, selectedSource, pdfOrigin>>]_vars

\* A chat click on evidence with a document was made while the source panel
\* was open with evidence in it: the viewer is open, the panel still is.
C17_Witness ==
  /\ lastCall.op = "handleSourceClick"
  /\ lastCall.source = Some(Source1)
  /\ isPdfOpen
  /\ selectedSource = Some(Source1)
  /\ isSourcePanelOpen
  /\ panelSources = <<Source3, Source4>>

\* C18: after a click on evidence with a document made in the source panel
\* the origin is sources-panel, and after one made in the chat transcript
\* it is chat, whether the viewer was closed or open before the click.
C18_OriginByClickContext ==
  [][/\ (PanelClick /\ HasDocument) => pdfOrigin' = "sources-panel"
     /\ (ChatClick /\ HasDocument) => pdfOrigin' = "chat"]_vars

\* C19: a click on evidence without a document sets the panel's evidence to
\* the full evidence list of the most recent assistant message that carries
\* evidence and the panel's score to that message's avg_score, or to the
\* clicked item alone and no score when no message carries evidence; the
\* panel is open afterwards.
C19_PanelFromLatestEvidence ==
  [][(ChatClick /\ ~HasDocument) =>
       /\ isSourcePanelOpen'
       /\ IF EvidenceMessages # {}
            THEN /\ panelSources' = MostRecentEvidence.sources[1]
                 /\ panelAvgScore' = Some(MostRecentEvidence.stats[1].avg_score)
            ELSE /\ panelSources' = <<lastCall'.source[1]>>
                 /\ panelAvgScore' = NULL]_vars

C21_OriginLayout ==
  /\ "hidden" \in mainContentClasses <=> (isPdfOpen /\ pdfOrigin = "sources-panel")
  /\ "pdf-open" \in mainContentClasses <=> (isPdfOpen /\ pdfOrigin = "chat")
  /\ ~("hidden" \in mainContentClasses /\ "pdf-open" \in mainContentClasses)
  /\ pdfPanelWidth = "calc(100vw - 28rem)" <=> pdfOrigin = "sources-panel"
  /\ (selectedSource # NULL /\ pdfOrigin = "chat") => pdfPanelWidth = "min(55vw, 800px)"

\* The viewer was opened from the source panel: the conversation is hidden
\* and the viewer is widened.
C21_Witness ==
  /\ lastCall.op = "handleViewPdfFromPanel"
  /\ isPdfOpen
  /\ pdfOrigin = "sources-panel"
  /\ mainContentClasses = {"hidden"}
  /\ pdfPanelWidth = "calc(100vw - 28rem)"

\* C22: for every evidence list, deduplicateSources returns one item per
\* breadcrumb of the list, namely the first item with the highest score of
\* its breadcrumb, in the order in which the breadcrumbs first occur; the
\* list it was given is the list the panel still holds.
C22_DedupeIsReference ==
  lastCall.op = "renderSourcePanel" =>
    /\ uniqueSources = DedupeReference(panelSources)
    /\ Len(uniqueSources) = Cardinality(Breadcrumbs(panelSources))
    /\ \A b \in Breadcrumbs(panelSources) :
         \E k \in 1..Len(uniqueSources) :
           uniqueSources[k] = panelSources[Keeper(panelSources, b)]
    /\ \A k, l \in 1..Len(uniqueSources) :
         k < l => FirstOf(panelSources, uniqueSources[k].breadcrumb)
                    < FirstOf(panelSources, uniqueSources[l].breadcrumb)

\* Two items of one breadcrumb with equal scores after an item of another
\* breadcrumb: the first of the two is kept, in second place.
C22_Witness ==
  /\ lastCall.op = "renderSourcePanel"
  /\ panelSources = <<Source3, Source1, Source5>>
  /\ uniqueSources = <<Source3, Source1>>

\* C23: deduplicating the deduplicated list changes nothing, and every item
\* of the input has, in the output, an item of its breadcrumb with a score
\* at least as high as its own.
C23_DedupeIdempotent ==
  lastCall.op = "renderSourcePanel" =>
    /\ deduplicateSources(uniqueSources) = uniqueSources
    /\ \A i \in 1..Len(panelSources) :
         \E k \in 1..Len(uniqueSources) :
           /\ uniqueSources[k].breadcrumb = panelSources[i].breadcrumb
           /\ uniqueSources[k].relevance_score >= panelSources[i].relevance_score
           /\ \A l \in 1..Len(uniqueSources) :
                uniqueSources[l].breadcrumb = panelSources[i].breadcrumb => l = k

\* A later item with a higher score replaced the first item of its
\* breadcrumb, in that item's place.
C23_Witness ==
  /\ lastCall.op = "renderSourcePanel"
  /\ panelSources = <<Source1, Source3, Source2>>
  /\ uniqueSources = <<Source2, Source3>>

\* The target the initial-scroll effect reads from the source prop: the
\* first page of the page range of the evidence shown.
pendingScrollTarget ==
  IF selectedSource # NULL /\ selectedSource[1].pdf_pages # NULL
    THEN Some(selectedSource[1].pdf_pages[1][1])
    ELSE NULL

\* The status of the viewer, from the state of Home and PDFViewerPanel:
\* closed when the panel is off screen or renders nothing, else error,
\* loading or ready by the error and isLoading state.
Status ==
  IF ~isPdfOpen \/ selectedSource = NULL THEN "closed"
  ELSE IF viewerError # NULL THEN "error"
  ELSE IF viewerIsLoading THEN "loading"
  ELSE "ready"

\* C24: the scale of the document viewer is within [0.5, 3.0] in every
\* reachable state, and from there each zoom operation (a button step of
\* 0.25 either way, a gesture step of 0.1 either way) yields a scale within
\* [0.5, 3.0].
C24_ScaleInRange ==
  /\ scale \in MinScale..MaxScale
  /\ zoomInScale(scale) \in MinScale..MaxScale
  /\ zoomOutScale(scale) \in MinScale..MaxScale
  /\ \A deltaY \in {-1, 1} : wheelScale(scale, deltaY) \in MinScale..MaxScale

\* zoomIn has stopped at the upper limit.
C24_Witness ==
  /\ lastCall.op = "zoomIn"
  /\ scale = MaxScale

\* C25: whenever the viewer shows a document, a wheel event with the
\* modifier held is captured (preventDefault is called and the scale moves
\* by 0.1 in the direction of the gesture, clamped), and a wheel event
\* without the modifier is not suppressed and changes nothing.
C25_WheelCaptured ==
  [][/\ lastCall'.op = "ctrlWheel" =>
          /\ lastCall'.prevented
          /\ scale' = wheelScale(scale, lastCall'.arg)
     /\ lastCall'.op = "wheel" =>
          /\ ~lastCall'.prevented
          /\ scale' = scale]_vars

\* C26: opening the viewer on an evidence item, or changing the evidence
\* while it is open, resets the scale to the default, clears the error,
\* marks the viewer loading and makes the item's first page the pending
\* scroll target, whatever the scale and the error were.
C26_OpenResets ==
  [][(/\ lastCall'.op = "viewEvidence"
      /\ ~isPdfOpen \/ selectedSource # lastCall'.source) =>
        /\ scale' = DefaultScale
        /\ viewerError' = NULL
        /\ viewerIsLoading'
        /\ pendingScrollTarget' = Some(lastCall'.source[1].pdf_pages[1][1])]_vars

\* The Document shows the file of the evidence selected: its pages are in
\* the layout.
DocumentReady ==
  /\ isPdfOpen
  /\ selectedSource # NULL
  /\ document # NULL
  /\ document[1].status = "loaded"
  /\ document[1].file = pdfUrl(selectedSource[1])

\* The transitions of the status that the claim lists.
ListedTransition ==
  \/ Status' = Status
  \/ Status = "closed" /\ Status' = "loading" /\ lastCall'.op = "viewEvidence"
  \/ Status = "loading" /\ Status' = "ready" /\ lastCall'.op = "onDocumentLoadSuccess"
  \/ Status = "loading" /\ Status' = "error" /\ lastCall'.op = "onDocumentLoadError"
  \/ Status = "error" /\ Status' = "loading" /\ lastCall'.op = "retry"
  \/ Status = "ready" /\ Status' = "loading" /\ lastCall'.op = "viewEvidence"
  \/ Status = "ready" /\ Status' = "closed" /\ lastCall'.op = "closeViewer"

\* The transitions of the status that the component takes besides the
\* listed ones: the viewer is closed from any status, by the close button
\* or when the delayed clear removes the evidence; a change of evidence
\* leaves the error status for loading; and a reopening of the evidence
\* still held resumes the status the viewer was hidden in.
FurtherTransition ==
  \/ Status' = "closed" /\ lastCall'.op \in {"closeViewer", "clearViewer"}
  \/ Status = "error" /\ Status' = "loading" /\ lastCall'.op = "viewEvidence"
  \/ /\ Status = "closed"
     /\ Status' \in {"ready", "error"}
     /\ lastCall'.op = "viewEvidence"
     /\ selectedSource = lastCall'.source

\* A load failure changes nothing of the Conversation Session.
LoadFailureKeepsSession ==
  lastCall'.op = "onDocumentLoadError" => UNCHANGED session

C28_ScrollsOnceToFirstPage ==
  /\ [](Len(scrollsDone) <= 1)
  /\ [](\A i \in 1..Len(scrollsDone) : Some(scrollsDone[i]) = pendingScrollTarget)
  /\ \A s \in ViewerSources :
       (selectedSource = Some(s) /\ DocumentReady /\ scrollsDone = <<>>)
         ~> (\/ s.pdf_pages[1][1] \in {scrollsDone[i] : i \in 1..Len(scrollsDone)}
             \/ selectedSource # Some(s)
             \/ ~isPdfOpen)

\* The page of 1..n nearest to p.
Clamped(p, n) ==
  CHOOSE q \in 1..n :
    \A r \in 1..n : (IF q > p THEN q - p ELSE p - q) <= (IF r > p THEN r - p ELSE p - r)

\* C29: goToPage(p) is clamped and idempotent: with a known page count n >= 1
\* the current page becomes max(1, min(p, n)), a page of 1..n; a second
\* call with the same p would leave the state as the first left it; and
\* with the page count unknown it changes nothing.
C29_GoToPageClamped ==
  [][lastCall'.op = "goToPage" =>
       /\ modal.numPages # NULL =>
            /\ modal.numPages[1] >= 1
            /\ modal'.currentPage = Clamped(lastCall'.arg, modal.numPages[1])
            /\ modal'.currentPage \in 1..modal.numPages[1]
       /\ modal.numPages = NULL => modal' = modal
       /\ [modal' EXCEPT !.currentPage =
              goToPageResult(lastCall'.arg, modal'.numPages, modal'.currentPage)] = modal'
       /\ \A f \in DOMAIN modal \ {"currentPage"} : modal'[f] = modal[f]]_vars

\* goToPage was called with a page beyond the last and stopped at the last.
C29_Witness ==
  /\ lastCall.op = "goToPage"
  /\ modal.numPages # NULL
  /\ lastCall.arg > modal.numPages[1]
  /\ modal.currentPage = modal.numPages[1]

\* The question of the request handled last, if its body has one that is a
\* string.
RouteQuestion ==
  IF /\ route.body # NULL
     /\ route.body[1].json = "object"
     /\ route.body[1].question.kind = "string"
    THEN Some(route.body[1].question.runs)
    ELSE NULL

\* runs without whitespace at either end.
RunsTrimmed(runs) ==
  runs = <<>> \/ (~runs[1].ws /\ ~runs[Len(runs)].ws)

\* inner is outer without the whitespace at its ends.
IsTrimOf(inner, outer) ==
  /\ RunsTrimmed(inner)
  /\ \E lead, trail \in 0..3 : outer = Padded(lead, inner, trail)

\* The question of the request has between 1 and 2000 characters once
\* trimmed.
RouteQuestionValid ==
  /\ RouteQuestion # NULL
  /\ \E inner \in Cores :
       /\ IsTrimOf(inner, RouteQuestion[1])
       /\ StringLength(inner) \in 1..MaxQuestionLength

\* C30: the query endpoint forwards a request to the backend only when the
\* trimmed question has between 1 and 2000 characters, and otherwise
\* answers 400 and sends nothing; a forwarded request carries the trimmed
\* question and a top_k within [1, 10] that is 5 when the caller gave none.
C30_ForwardsValidOnly ==
  route.body # NULL =>
    IF RouteQuestionValid
      THEN /\ Len(route.forwarded) = 1
           /\ IsTrimOf(route.forwarded[1].question, RouteQuestion[1])
           /\ route.forwarded[1].top_k \in MinTopK..MaxTopK
           /\ route.body[1].top_k = Undefined => route.forwarded[1].top_k = DefaultTopK
      ELSE /\ route.forwarded = <<>>
           /\ route.response[1].status = 400

\* The most recently appended message is a successful answer: an assistant
\* message with an evidence list and stats.
LastIsAnswer ==
  /\ Len(messages) > 0
  /\ Last(messages).role = "assistant"
  /\ Last(messages).sources # NULL
  /\ Last(messages).stats # NULL

\* C34: whenever the most recently appended message is a successful
\* answer, the error of the session is null, for every interleaving of
\* send, cancel, clear and the ends of requests.
C34_NoErrorAfterAnswer == LastIsAnswer => error = NULL

\* C35: whenever the conversation is hidden (the viewer is open with
\* origin sources-panel) the source panel is open.
C35_HiddenChatHasPanel == ~ChatVisible => isSourcePanelOpen

\* C36: after a click on an evidence item without a document, made on a
\* badge of any assistant message of the transcript, the evidence set of
\* the source panel contains the clicked item.
C36_PanelHoldsClickedItem ==
  [][(ChatClick /\ ~HasDocument) =>
       \E k \in 1..Len(panelSources') : panelSources'[k] = lastCall'.source[1]]_vars

\* The evidence items of the messages now in the transcript.
TranscriptEvidence ==
  UNION {{messages[i].sources[1][k] : k \in 1..Len(messages[i].sources[1])} :
           i \in {j \in 1..Len(messages) : messages[j].sources # NULL}}

\* C37: the selected evidence, when there is one, and every item of the
\* source panel's evidence set, while the panel is open, belong to the
\* evidence list of a message of the transcript, also after a clear.
C37_ReferencesInTranscript ==
  /\ selectedSource # NULL => selectedSource[1] \in TranscriptEvidence
  /\ isSourcePanelOpen =>
       \A k \in 1..Len(panelSources) : panelSources[k] \in TranscriptEvidence

\* The backend answered the query forwarded last with HTTP 429 and a body
\* carrying a message and a limit.
BackendRateLimited ==
  /\ lastCall.op = "apiQuery"
  /\ route.forwarded # <<>>
  /\ lastCall.outcome[1].kind = "notok"
  /\ lastCall.outcome[1].status = 429
  /\ lastCall.outcome[1].message # NULL
  /\ lastCall.outcome[1].limit # NULL

\* C33: when the backend answers a query with HTTP 429 carrying a message
\* and a limit, the error the request client raises is marked as a
\* rate-limit error, its limit is the backend's limit and its message is
\* the backend's message.
C33_RateLimitEndToEnd ==
  BackendRateLimited =>
    /\ route.raised[1].threw
    /\ route.raised[1].isRateLimit
    /\ route.raised[1].limit = lastCall.outcome[1].limit
    /\ route.raised[1].message = lastCall.outcome[1].message

\* The blocks of the layout whose centre is nearest to the reference point,
\* one third of the way down the container: block i is at least as near
\* as every block (the distances are taken in sixths of a unit).
Nearest(geometry) ==
  LET ref3 == 3 * geometry.container.top + geometry.container.height
      off(b) == Abs(2 * (3 * b.top) + 3 * b.height - 2 * ref3)
  IN  {i \in 1..Len(geometry.blocks) :
         \A j \in 1..Len(geometry.blocks) : off(geometry.blocks[i]) <= off(geometry.blocks[j])}

\* The page the computation is to report: the first of the nearest blocks,
\* or 1 without blocks.
ClosestReference(geometry) ==
  IF geometry.blocks = <<>> THEN 1
  ELSE geometry.blocks[CHOOSE i \in Nearest(geometry) :
                         \A j \in Nearest(geometry) : i <= j].page

\* C31: the current page handleScroll reports is a rendered page whose
\* vertical centre is nearest to the point one third of the way down the
\* viewport, the first such page in the order of the blocks when several
\* are equally near, and 1 when there is no page block.
C31_ClosestPage ==
  lastCall.op = "handleScroll" => currentPage = ClosestReference(layout)

\* Two blocks are equally near and the first one was reported.
C31_Witness ==
  /\ lastCall.op = "handleScroll"
  /\ Cardinality(Nearest(layout)) > 1
  /\ currentPage = 1
  /\ 2 \in Nearest(layout)

\* C32: in every state where the viewer is ready, a scroll event on the
\* document container sets the current page to the closest page of the
\* layout, also after close, delayed clear, reopen and swap.
C32_ScrollTracksPage ==
  [][(lastCall'.op = "scroll" /\ Status = "ready") =>
       currentPage' = ClosestReference(layout')]_vars

\* C38: whenever the viewer is ready with a known page count, the current
\* page is within 1..pageCount.
C38_CurrentPageInRange ==
  (Status = "ready" /\ numPages # NULL) => currentPage \in 1..numPages[1]

====
